---- MODULE Spec2Model ----
(***************************************************************************)
(* Model of genre_filler.py: discovery of MP3 targets from a selection of  *)
(* paths, normalisation of artist text, the most-recently-used directory   *)
(* list, and the batch run that writes genre/artist tags file by file.     *)
(*                                                                         *)
(* Python strings whose characters matter (artist text, genre, file-name   *)
(* suffixes) are sequences of one-character strings.  A pathlib.Path is a  *)
(* record [abs, parts]; the file system is a fixed small tree.             *)
(***************************************************************************)
EXTENDS Integers, Sequences, FiniteSets, TLC

VARIABLES
    posix,        \* TRUE: PosixPath flavour, FALSE: WindowsPath flavour
    aux_ok,       \* whether the object _ensure_easy_tags returns exposes .tags
    selected,     \* main(): selected, the Selection
    recent_dirs,  \* main(): recent_dirs, the in-memory MRU list
    persisted,    \* content of RECENT_PATH on disk
    tags,         \* on-disk tag record of every file
    successes,    \* main(): successes (-1 while the local is unbound)
    mp3s,         \* targets of the last discovery
    errors,       \* warnings of the last discovery
    popup,        \* popup shown by the last handled event
    log_lines,    \* lines the last handled event appended to the log
    raw_artists,  \* argument of _normalize_artist_entries
    normalized,   \* result of _normalize_artist_entries
    last_dir,     \* history: argument of the last _remember_dir call
    prev_run,     \* history: inputs of the last -RUN- event, if it was the last event
    event         \* the operation or event handled last ("start" before any)

vars == << posix, aux_ok, selected, recent_dirs, persisted, tags, successes,
           mp3s, errors, popup, log_lines, raw_artists, normalized, last_dir,
           prev_run, event >>

----------------------------------------------------------------------------
(* Bounds of the model. *)

\* longest sequence of entries handed to _collect_mp3s in SpecDiscover
MaxItems == 3

\* longest single raw string handed to _normalize_artist_entries in SpecNorm
MaxLen == 4

\* longest string of a two-string argument of _normalize_artist_entries
MaxPairLen == 2

\* longest MRU list _remember_dir starts from in SpecRemember
MaxRecent == 3

----------------------------------------------------------------------------
(* Python str operations, on sequences of characters. *)

IsSpace(c) == c \in {" ", "\t"}

LowerChar(c) ==
    CASE c = "A" -> "a" [] c = "B" -> "b" [] c = "C" -> "c" [] c = "D" -> "d"
      [] c = "M" -> "m" [] c = "P" -> "p" [] c = "R" -> "r"
      [] OTHER -> c

\* str.lower()
Lower(s) == [i \in DOMAIN s |-> LowerChar(s[i])]

\* s.endswith(t)
EndsWith(s, t) ==
    /\ Len(s) >= Len(t)
    /\ SubSeq(s, Len(s) - Len(t) + 1, Len(s)) = t

\* s.rfind(c), 1-based; 0 when c does not occur
RFind(s, c) ==
    LET hits == {i \in DOMAIN s : s[i] = c}
    IN  IF hits = {} THEN 0 ELSE CHOOSE i \in hits : \A j \in hits : j <= i

----------------------------------------------------------------------------
(* pathlib paths and the file system. *)

\* characters of every file or directory name the model uses
NameChars ==
    ( "music" :> <<"m","u","s","i","c">> ) @@
    ( "lib"   :> <<"l","i","b">> ) @@
    ( "sub"   :> <<"s","u","b">> ) @@
    ( "deep"  :> <<"d","e","e","p">> ) @@
    ( ".."    :> <<".",".">> ) @@
    ( "a.mp3" :> <<"a",".","m","p","3">> ) @@
    ( "A.MP3" :> <<"A",".","M","P","3">> ) @@
    ( "b.txt" :> <<"b",".","t","x","t">> ) @@
    ( "c.MP3" :> <<"c",".","M","P","3">> ) @@
    ( "d.mp3" :> <<"d",".","m","p","3">> ) @@
    ( "e.mp3" :> <<"e",".","m","p","3">> ) @@
    ( "gone.mp3" :> <<"g","o","n","e",".","m","p","3">> ) @@
    ( "a.mp3 " :> <<"a",".","m","p","3"," ">> ) @@
    ( "a.mp3 a.mp3" :> <<"a",".","m","p","3"," ","a",".","m","p","3">> )

AbsPath(parts) == [abs |-> TRUE, parts |-> parts]
RelPath(parts) == [abs |-> FALSE, parts |-> parts]

\* PurePath.name
PathName(p) == IF p.parts = <<>> THEN <<>> ELSE NameChars[p.parts[Len(p.parts)]]

\* PurePath.suffix: from the last dot, unless that dot is first or last
PathSuffix(p) ==
    LET name == PathName(p)
        i    == RFind(name, ".")
    IN  IF 1 < i /\ i < Len(name) THEN SubSeq(name, i, Len(name)) ELSE <<>>

\* what PurePath.__eq__ and __hash__ compare: the parts, case-folded on Windows
PathKey(p) ==
    [abs   |-> p.abs,
     parts |-> [i \in DOMAIN p.parts |->
                   IF posix THEN NameChars[p.parts[i]]
                            ELSE Lower(NameChars[p.parts[i]])]]

\* p / name
Child(p, name) == [abs |-> p.abs, parts |-> Append(p.parts, name)]

\* The tree on disk: each directory with its entries in os.scandir order.
DirChildren ==
    ( <<>>             :> <<"music", "lib">> ) @@
    ( <<"music">>      :> <<"a.mp3", "b.txt">> ) @@
    ( <<"lib">>        :> <<"c.MP3", "sub">> ) @@
    ( <<"lib", "sub">> :> <<"d.mp3", "deep">> ) @@
    ( <<"lib", "sub", "deep">> :> <<"e.mp3">> )

Dirs == DOMAIN DirChildren

Files == { <<"music", "a.mp3">>, <<"music", "b.txt">>, <<"lib", "c.MP3">>,
           <<"lib", "sub", "d.mp3">>, <<"lib", "sub", "deep", "e.mp3">> }

\* the process's working directory
Cwd == <<"music">>

NoNode == <<"?">>

Front(s) == IF s = <<>> THEN <<>> ELSE SubSeq(s, 1, Len(s) - 1)

\* the entry of directory dir the OS finds for name (exact on POSIX,
\* case-insensitive on Windows); "" when there is none
Entry(dir, name) ==
    LET kids == DirChildren[dir]
        hit  == {i \in DOMAIN kids :
                    IF posix THEN kids[i] = name
                    ELSE Lower(NameChars[kids[i]]) = Lower(NameChars[name])}
    IN  IF hit = {} THEN "" ELSE kids[CHOOSE i \in hit : TRUE]

\* the node the OS reaches from node cur along parts (stat), or NoNode
RECURSIVE OsWalk(_, _)
OsWalk(cur, parts) ==
    IF parts = <<>> THEN cur
    ELSE IF cur \notin Dirs THEN NoNode
    ELSE IF Head(parts) = ".." THEN OsWalk(Front(cur), Tail(parts))
    ELSE LET e == Entry(cur, Head(parts))
         IN  IF e = "" THEN NoNode ELSE OsWalk(Append(cur, e), Tail(parts))

NodeOf(p) == OsWalk(IF p.abs THEN <<>> ELSE Cwd, p.parts)

\* Path.exists(), Path.is_file(), Path.is_dir()
Exists(p) == NodeOf(p) # NoNode
IsFile(p) == NodeOf(p) \in Files
IsDir(p)  == NodeOf(p) \in Dirs

\* Path.resolve(): absolute, ".." collapsed; on Windows an existing entry
\* takes the spelling it has on disk
RECURSIVE ResolveWalk(_, _)
ResolveWalk(acc, parts) ==
    IF parts = <<>> THEN acc
    ELSE IF Head(parts) = ".." THEN ResolveWalk(Front(acc), Tail(parts))
    ELSE LET e == IF acc \in Dirs THEN Entry(acc, Head(parts)) ELSE ""
         IN  ResolveWalk(Append(acc, IF e = "" THEN Head(parts) ELSE e),
                         Tail(parts))

Resolve(p) == AbsPath(ResolveWalk(IF p.abs THEN <<>> ELSE Cwd, p.parts))

MP3_SUFFIX == <<".", "m", "p", "3">>

\* mutant of GlobMatch: the pattern "*" instead of "*.mp3"
GlobMatch_AnyFile(name) == TRUE

\* fnmatch of a name against "*.mp3": case-sensitive on POSIX,
\* re.IGNORECASE on Windows
GlobMatch(name) ==
    EndsWith(IF posix THEN NameChars[name] ELSE Lower(NameChars[name]),
             MP3_SUFFIX)

\* the entries of one directory that match, as children of the spelling p
RECURSIVE MatchIn(_, _)
MatchIn(p, kids) ==
    IF kids = <<>> THEN <<>>
    ELSE (IF GlobMatch(Head(kids)) THEN <<Child(p, Head(kids))>> ELSE <<>>)
         \o MatchIn(p, Tail(kids))

\* Path.rglob("*.mp3"): the directory's own matches, then each
\* subdirectory's, depth first, every result spelled under p
RECURSIVE RGlob(_, _)
RECURSIVE RGlobSubdirs(_, _, _)
RGlobSubdirs(p, node, kids) ==
    IF kids = <<>> THEN <<>>
    ELSE (IF Append(node, Head(kids)) \in Dirs
          THEN RGlob(Child(p, Head(kids)), Append(node, Head(kids)))
          ELSE <<>>)
         \o RGlobSubdirs(p, node, Tail(kids))
RGlob(p, node) ==
    IF node \notin Dirs THEN <<>>
    ELSE MatchIn(p, DirChildren[node]) \o RGlobSubdirs(p, node, DirChildren[node])

----------------------------------------------------------------------------
(* _collect_mp3s *)

Warning(kind, item) == [kind |-> kind, path |-> item]

\* the loop over rglob's results: append the ones not seen yet
RECURSIVE AddUnseen(_, _)
AddUnseen(acc, found) ==
    IF found = <<>> THEN acc
    ELSE AddUnseen(
            IF PathKey(Head(found)) \in acc.seen THEN acc
            ELSE [acc EXCEPT !.mp3s = Append(@, Head(found)),
                             !.seen = @ \cup {PathKey(Head(found))}],
            Tail(found))

\* mutant of CollectItem: a file of the wrong type is skipped without warning
CollectItem_SilentSkip(acc, item) ==
    IF ~Exists(item)
    THEN [acc EXCEPT !.errors = Append(@, Warning("Missing path skipped", item))]
    ELSE IF IsFile(item)
    THEN IF Lower(PathSuffix(item)) = MP3_SUFFIX
         THEN AddUnseen(acc, <<item>>)
         ELSE acc
    ELSE AddUnseen(acc, RGlob(item, NodeOf(item)))

\* one iteration of the loop over items
CollectItem(acc, item) ==
    IF ~Exists(item)
    THEN [acc EXCEPT !.errors = Append(@, Warning("Missing path skipped", item))]
    ELSE IF IsFile(item)
    THEN IF Lower(PathSuffix(item)) = MP3_SUFFIX
         THEN AddUnseen(acc, <<item>>)
         ELSE [acc EXCEPT
                 !.errors = Append(@, Warning("Not an MP3 file skipped", item))]
    ELSE AddUnseen(acc, RGlob(item, NodeOf(item)))

RECURSIVE CollectLoop(_, _)
CollectLoop(acc, items) ==
    IF items = <<>> THEN acc
    ELSE CollectLoop(CollectItem(acc, Head(items)), Tail(items))

\* _collect_mp3s(items): the record [mp3s, errors, seen] at return
CollectMp3s(items) ==
    CollectLoop([mp3s |-> <<>>, errors |-> <<>>, seen |-> {}], items)

----------------------------------------------------------------------------
(* _normalize_artist_entries *)

\* s.replace(old, new) for single characters
Replace(s, old, new) == [i \in DOMAIN s |-> IF s[i] = old THEN new ELSE s[i]]

\* s.split(sep) for a single-character separator: the pieces between
\* separators, empty pieces included
RECURSIVE Split(_, _)
Split(s, sep) ==
    LET hits == {i \in DOMAIN s : s[i] = sep}
    IN  IF hits = {} THEN <<s>>
        ELSE LET i == CHOOSE k \in hits : \A j \in hits : k <= j
             IN  <<SubSeq(s, 1, i - 1)>> \o Split(SubSeq(s, i + 1, Len(s)), sep)

\* s.strip()
RECURSIVE LStrip(_)
LStrip(s) == IF s # <<>> /\ IsSpace(Head(s)) THEN LStrip(Tail(s)) ELSE s
RECURSIVE RStrip(_)
RStrip(s) == IF s # <<>> /\ IsSpace(s[Len(s)]) THEN RStrip(Front(s)) ELSE s
Strip(s) == RStrip(LStrip(s))

\* the inner loop: trim every piece and keep the non-empty ones
RECURSIVE KeepNames(_)
KeepNames(pieces) ==
    IF pieces = <<>> THEN <<>>
    ELSE LET name == Strip(Head(pieces))
         IN  (IF name # <<>> THEN <<name>> ELSE <<>>) \o KeepNames(Tail(pieces))

\* mutant of SplitArtists: the slash is not a separator
SplitArtists_NoSlash(raw) == Split(Replace(raw, ";", ","), ",")

\* the pieces of one raw string
SplitArtists(raw) == Split(Replace(Replace(raw, ";", ","), "/", ","), ",")

\* _normalize_artist_entries(raw_artists)
RECURSIVE NormalizeArtistEntries(_)
NormalizeArtistEntries(raws) ==
    IF raws = <<>> THEN <<>>
    ELSE (IF Head(raws) = <<>> THEN <<>> ELSE KeepNames(SplitArtists(Head(raws))))
         \o NormalizeArtistEntries(Tail(raws))

----------------------------------------------------------------------------
(* Raw path strings.  A raw string is a record of the same shape as a path *)
(* whose parts may still hold "." and a leading "~"; the empty string is   *)
(* the relative string without parts.                                      *)

EmptyStr == RelPath(<<>>)

\* the process's home directory
Home == <<"music">>

RECURSIVE DropDots(_)
DropDots(parts) ==
    IF parts = <<>> THEN <<>>
    ELSE (IF Head(parts) = "." THEN <<>> ELSE <<Head(parts)>>)
         \o DropDots(Tail(parts))

\* Path(raw): "." components vanish
PathOf(raw) == [abs |-> raw.abs, parts |-> DropDots(raw.parts)]

\* str(path): the path without parts prints as "."
StrOf(p) == IF ~p.abs /\ p.parts = <<>> THEN RelPath(<<".">>) ELSE p

\* Path.expanduser(): a leading "~" becomes the home directory
ExpandUser(p) ==
    IF ~p.abs /\ p.parts # <<>> /\ Head(p.parts) = "~"
    THEN AbsPath(Home \o Tail(p.parts))
    ELSE p

\* _normalize_entries(entries)
RECURSIVE NormalizeEntries(_)
NormalizeEntries(entries) ==
    IF entries = <<>> THEN <<>>
    ELSE (IF Head(entries) = EmptyStr THEN <<>>
          ELSE <<ExpandUser(PathOf(Head(entries)))>>)
         \o NormalizeEntries(Tail(entries))

----------------------------------------------------------------------------
(* The MRU directory list and its storage. *)

\* the slice bound of _remember_dir
MRU_MAX == 2

Min(a, b) == IF a <= b THEN a ELSE b

\* mutant of RememberDir: the old copy of the directory is not removed
RememberDir_NoFilter(current, new_dir) ==
    LET updated == <<Resolve(new_dir)>> \o current
    IN  SubSeq(updated, 1, Min(MRU_MAX, Len(updated)))

\* _remember_dir(current, new_dir)
RememberDir(current, new_dir) ==
    LET resolved == Resolve(new_dir)
        updated  == <<resolved>> \o
                    SelectSeq(current, LAMBDA p : PathKey(p) # PathKey(resolved))
    IN  SubSeq(updated, 1, Min(MRU_MAX, Len(updated)))

\* JSON values in the storage file: [j |-> "str", raw |-> r] is a string,
\* [j |-> "num", n |-> k] a number, [j |-> "null"] null, [j |-> "list",
\* n |-> k] a nested list of k elements.
JStr(raw) == [j |-> "str", raw |-> raw, n |-> 0]
JNum(k)   == [j |-> "num", raw |-> EmptyStr, n |-> k]
JNull     == [j |-> "null", raw |-> EmptyStr, n |-> 0]
JList(k)  == [j |-> "list", raw |-> EmptyStr, n |-> k]

\* Python truthiness of a decoded JSON element
Truthy(e) ==
    CASE e.j = "str" -> e.raw # EmptyStr
      [] e.j \in {"num", "list"} -> e.n # 0
      [] OTHER       -> FALSE

\* The file: [t |-> "missing"], [t |-> "unreadable"], [t |-> "garbage"]
\* (not JSON), [t |-> "empty"] (no bytes, not JSON either), or a JSON
\* document: [t |-> "list", v |-> elements], [t |-> "obj", v |-> keys as
\* written], [t |-> "str", v |-> characters], [t |-> "num"], [t |-> "null"].
FileMissing    == [t |-> "missing", v |-> <<>>]
FileUnreadable == [t |-> "unreadable", v |-> <<>>]
FileGarbage    == [t |-> "garbage", v |-> <<>>]
FileEmpty      == [t |-> "empty", v |-> <<>>]
FileList(v)    == [t |-> "list", v |-> v]
FileObject(v)  == [t |-> "obj", v |-> v]
FileString(v)  == [t |-> "str", v |-> v]
FileNumber     == [t |-> "num", v |-> <<>>]
FileNull       == [t |-> "null", v |-> <<>>]

\* what `for p in data` goes through: the elements of a list, the keys of
\* an object, the characters of a string
Iterable(file) == file.t \in {"list", "obj", "str"}

\* the keys of the dict json.loads makes of an object: a key written
\* several times is one key, at the place where it came first
RECURSIVE DictKeys(_, _)
DictKeys(keys, rest) ==
    IF rest = <<>> THEN keys
    ELSE DictKeys(IF \E i \in DOMAIN keys : keys[i] = Head(rest)
                  THEN keys ELSE Append(keys, Head(rest)),
                  Tail(rest))

\* what `for p in data` yields, in order
Yielded(file) == IF file.t = "obj" THEN DictKeys(<<>>, file.v) ELSE file.v

\* _load_recent_dirs(): Path(p) of every truthy element; any exception
\* (unreadable, not JSON, not iterable, Path() of a non-string) gives []
LoadRecentDirs(file) ==
    IF ~Iterable(file) THEN <<>>
    ELSE LET kept == SelectSeq(Yielded(file), Truthy)
         IN  IF \E i \in DOMAIN kept : kept[i].j # "str" THEN <<>>
             ELSE [i \in DOMAIN kept |-> PathOf(kept[i].raw)]

\* what _save_recent_dirs writes when the write succeeds
SavedForm(recent) == FileList([i \in DOMAIN recent |-> JStr(StrOf(recent[i]))])

\* mutant of SaveRecentDirs: nothing is ever written
SaveRecentDirs_NeverWrites(file, recent, outcome) == file

\* _save_recent_dirs(recent): the file afterwards, by the outcome of
\* write_text.  "written": the text is stored.  "refused": open() raises
\* and the file stays as it is.  "truncated": open() has emptied the file
\* and write() raises at once (disk full), which leaves it empty.  "cut":
\* write() raises after some of the text is stored; a text that starts a
\* JSON list and does not end it is not JSON.  Every exception is swallowed.
SaveRecentDirs(file, recent, outcome) ==
    CASE outcome = "written"   -> SavedForm(recent)
      [] outcome = "truncated" -> FileEmpty
      [] outcome = "cut"       -> FileGarbage
      [] OTHER                 -> file

WriteOutcomes == {"written", "refused", "truncated", "cut"}

----------------------------------------------------------------------------
(* The tag store (mutagen) and the per-file body of the -RUN- loop. *)

\* How mutagen treats each file: "id3" opens and saves; "readonly" opens
\* but save() raises; "noheader" is audio without an ID3 header;
\* "unsupported" is no audio mutagen can read.
FileKind ==
    ( <<"music", "a.mp3">>      :> "id3" ) @@
    ( <<"music", "b.txt">>      :> "unsupported" ) @@
    ( <<"lib", "c.MP3">>        :> "id3" ) @@
    ( <<"lib", "sub", "d.mp3">> :> "unsupported" ) @@
    ( <<"lib", "sub", "deep", "e.mp3">> :> "readonly" )

TagRecord(genre, artist, aux) == [genre |-> genre, artist |-> artist, aux |-> aux]

\* The tags on disk at start.  genre and artist are the lists EasyID3
\* returns (empty when the frame is absent); aux holds the text of the
\* TXXX:ARTISTS-LIST frame, as a one-element sequence when the frame exists.
InitTags ==
    ( <<"music", "a.mp3">>      :> TagRecord(<<>>, << <<"A", "/", "B">> >>, <<>>) ) @@
    ( <<"music", "b.txt">>      :> TagRecord(<<>>, <<>>, <<>>) ) @@
    ( <<"lib", "c.MP3">>        :> TagRecord(<< <<"R">> >>, <<>>, <<>>) ) @@
    ( <<"lib", "sub", "d.mp3">> :> TagRecord(<<>>, <<>>, <<>>) ) @@
    ( <<"lib", "sub", "deep", "e.mp3">> :> TagRecord(<<>>, << <<"B">> >>, <<>>) )

\* sep.join(names)
RECURSIVE JoinWith(_, _)
JoinWith(names, sep) ==
    IF names = <<>> THEN <<>>
    ELSE IF Len(names) = 1 THEN Head(names)
    ELSE Head(names) \o sep \o JoinWith(Tail(names), sep)

ARTIST_SEP == <<" ", "/", " ">>

\* _ensure_easy_tags(file_path): TRUE when it returns, FALSE when it raises.
\* For a file without header, add_tags() only changes the object in memory,
\* so the second EasyID3(file_path) raises ID3NoHeaderError again.
EnsureEasyTags(node) == node \in Files /\ FileKind[node] \in {"id3", "readonly"}

\* mutant of StoreCanonical: the frame is added without removing the old one
StoreCanonical_Append(audio, artists_to_write) ==
    IF aux_ok THEN [audio EXCEPT !.aux = Append(@, artists_to_write)] ELSE audio

\* the try block that stores the canonical list: del, then add, of the
\* TXXX:ARTISTS-LIST frame; an exception (audio.tags missing) is swallowed
StoreCanonical(audio, artists_to_write) ==
    IF aux_ok THEN [audio EXCEPT !.aux = <<artists_to_write>>] ELSE audio

\* mutant of EditTags: the file's own artist field is never consulted
EditTags_TypedOnly(audio, genre, artists, join_artists) ==
    LET a1 == IF genre # <<>> THEN [audio EXCEPT !.genre = <<genre>>] ELSE audio
    IN  IF artists = <<>> THEN a1
        ELSE StoreCanonical(
                [a1 EXCEPT !.artist =
                    IF join_artists THEN <<JoinWith(artists, ARTIST_SEP)>>
                    ELSE artists],
                artists)

\* mutant of EditTags: a failure to store the frame discards the edits
EditTags_FrameFailureLosesEdits(audio, genre, artists, join_artists) ==
    LET a1 == IF genre # <<>> THEN [audio EXCEPT !.genre = <<genre>>] ELSE audio
        artists_to_write ==
            IF artists # <<>> THEN artists ELSE NormalizeArtistEntries(a1.artist)
    IN  IF artists_to_write = <<>> THEN a1
        ELSE IF ~aux_ok THEN audio
        ELSE StoreCanonical(
                [a1 EXCEPT !.artist =
                    IF join_artists THEN <<JoinWith(artists_to_write, ARTIST_SEP)>>
                    ELSE artists_to_write],
                artists_to_write)

\* the edits made to the opened tags before save()
EditTags(audio, genre, artists, join_artists) ==
    LET a1 == IF genre # <<>> THEN [audio EXCEPT !.genre = <<genre>>] ELSE audio
        artists_to_write ==
            IF artists # <<>> THEN artists ELSE NormalizeArtistEntries(a1.artist)
    IN  IF artists_to_write = <<>> THEN a1
        ELSE StoreCanonical(
                [a1 EXCEPT !.artist =
                    IF join_artists THEN <<JoinWith(artists_to_write, ARTIST_SEP)>>
                    ELSE artists_to_write],
                artists_to_write)

\* audio.save(): TRUE when it returns, FALSE when it raises
SaveOk(node) == FileKind[node] = "id3"

LogLine(kind, path, genre, artist) ==
    [kind |-> kind, path |-> path, genre |-> genre, artist |-> artist]

\* one iteration of `for mp3 in mp3s`: the state [tags, successes, log]
ProcessFile(st, mp3, genre, artists, join_artists) ==
    LET node == NodeOf(mp3)
    IN  IF EnsureEasyTags(node) /\ SaveOk(node)
        THEN [tags      |-> [st.tags EXCEPT ![node] =
                                EditTags(@, genre, artists, join_artists)],
              successes |-> st.successes + 1,
              log       |-> Append(st.log,
                              LogLine("Updated", mp3, genre # <<>>, artists # <<>>))]
        ELSE [st EXCEPT !.log = Append(@, LogLine("Failed", mp3, FALSE, FALSE))]

\* mutant of ProcessAll: the first failure ends the loop
RECURSIVE ProcessAll_StopOnFailure(_, _, _, _, _)
ProcessAll_StopOnFailure(st, targets, genre, artists, join_artists) ==
    IF targets = <<>> THEN st
    ELSE LET next == ProcessFile(st, Head(targets), genre, artists, join_artists)
         IN  IF next.successes = st.successes THEN next
             ELSE ProcessAll_StopOnFailure(next, Tail(targets), genre, artists,
                                           join_artists)

RECURSIVE ProcessAll(_, _, _, _, _)
ProcessAll(st, targets, genre, artists, join_artists) ==
    IF targets = <<>> THEN st
    ELSE ProcessAll(ProcessFile(st, Head(targets), genre, artists, join_artists),
                    Tail(targets), genre, artists, join_artists)

\* the listbox refresh at the end of an iteration of the event loop:
\* selected without repeated paths, first occurrence kept
RECURSIVE DedupLoop(_, _, _)
DedupLoop(deduped, seen, rest) ==
    IF rest = <<>> THEN deduped
    ELSE IF PathKey(Head(rest)) \in seen THEN DedupLoop(deduped, seen, Tail(rest))
    ELSE DedupLoop(Append(deduped, Head(rest)), seen \cup {PathKey(Head(rest))},
                   Tail(rest))

Refresh(sel) == DedupLoop(<<>>, {}, sel)

----------------------------------------------------------------------------
(* The event loop of main(): one action per event, each with the listbox   *)
(* refresh that ends the iteration.                                        *)

\* longest Selection the model lets the session build
MaxSel == 2

NoPopup == [kind |-> "none", count |-> 0]
NoRun   == [streak |-> 0, genre |-> <<>>, artist |-> <<>>, join |-> FALSE,
            sel |-> <<>>]
NoDir   == [streak |-> 0, dir |-> EmptyStr]

\* what an event other than -RUN- leaves of the per-run outputs
Quiet(name, lines) ==
    /\ event' = name
    /\ mp3s' = <<>>
    /\ errors' = <<>>
    /\ popup' = NoPopup
    /\ log_lines' = lines
    /\ prev_run' = NoRun
    /\ UNCHANGED << posix, aux_ok, tags, successes, raw_artists, normalized,
                    last_dir >>

\* -CHOOSE-FILES-: entries is what the file dialog returned, as a list
ChooseFiles(entries) ==
    /\ selected' = Refresh(IF entries # <<>>
                           THEN selected \o NormalizeEntries(entries)
                           ELSE selected)
    /\ Len(selected') <= MaxSel
    /\ UNCHANGED << recent_dirs, persisted >>
    /\ Quiet("-CHOOSE-FILES-", <<>>)

\* -CHOOSE-FOLDER-: folder is the string the folder dialog returned
ChooseFolder(folder, outcome) ==
    /\ IF folder # EmptyStr
       THEN /\ selected' = Refresh(Append(selected, PathOf(folder)))
            /\ recent_dirs' = RememberDir(recent_dirs, PathOf(folder))
            /\ persisted' = SaveRecentDirs(persisted, recent_dirs', outcome)
       ELSE /\ selected' = Refresh(selected)
            /\ outcome = "written"
            /\ UNCHANGED << recent_dirs, persisted >>
    /\ Len(selected') <= MaxSel
    /\ Quiet("-CHOOSE-FOLDER-", <<>>)

\* -USE-RECENT-: recent_choice is the combo's value, "" or one of the
\* strings of recent_dirs the combo was last filled with
UseRecent(recent_choice, outcome) ==
    /\ \/ recent_choice = EmptyStr
       \/ \E i \in DOMAIN recent_dirs : recent_choice = StrOf(recent_dirs[i])
    /\ IF recent_choice # EmptyStr
       THEN /\ selected' = Refresh(Append(selected, PathOf(recent_choice)))
            /\ recent_dirs' = RememberDir(recent_dirs, PathOf(recent_choice))
            /\ persisted' = SaveRecentDirs(persisted, recent_dirs', outcome)
       ELSE /\ selected' = Refresh(selected)
            /\ outcome = "written"
            /\ UNCHANGED << recent_dirs, persisted >>
    /\ Len(selected') <= MaxSel
    /\ Quiet("-USE-RECENT-", <<>>)

\* mutant of Clear: the list of recent directories is emptied as well
Clear_ForgetsRecent ==
    /\ selected' = Refresh(<<>>)
    /\ recent_dirs' = <<>>
    /\ UNCHANGED persisted
    /\ Quiet("-CLEAR-", <<LogLine("Cleared selection.", EmptyStr, FALSE, FALSE)>>)

\* -CLEAR-
Clear ==
    /\ selected' = Refresh(<<>>)
    /\ UNCHANGED << recent_dirs, persisted >>
    /\ Quiet("-CLEAR-", <<LogLine("Cleared selection.", EmptyStr, FALSE, FALSE)>>)

\* The text of the -DROP- input is a sequence of tokens: a path string,
\* or one of the characters ";", "\n", " ".
PathTok(raw) == [tok |-> "path", raw |-> raw]
CharTok(c)   == [tok |-> c, raw |-> EmptyStr]

\* value.replace(";", "\n")
DropReplace(value) ==
    [i \in DOMAIN value |-> IF value[i].tok = ";" THEN CharTok("\n") ELSE value[i]]

\* str.splitlines(): the pieces between line breaks, without a last empty one
RECURSIVE DropLines(_)
DropLines(value) ==
    LET hits == {i \in DOMAIN value : value[i].tok = "\n"}
    IN  IF value = <<>> THEN <<>>
        ELSE IF hits = {} THEN <<value>>
        ELSE LET i == CHOOSE k \in hits : \A j \in hits : k <= j
             IN  <<SubSeq(value, 1, i - 1)>>
                 \o DropLines(SubSeq(value, i + 1, Len(value)))

\* chunk.strip()
RECURSIVE DropLStrip(_)
DropLStrip(c) == IF c # <<>> /\ Head(c).tok = " " THEN DropLStrip(Tail(c)) ELSE c
RECURSIVE DropRStrip(_)
DropRStrip(c) == IF c # <<>> /\ c[Len(c)].tok = " " THEN DropRStrip(Front(c)) ELSE c

\* the text s written right after the raw string acc: it lengthens the
\* last name of acc, or is its first name
GlueName(acc, s) ==
    IF acc.parts = <<>> THEN [acc EXCEPT !.parts = <<s>>]
    ELSE [acc EXCEPT !.parts[Len(acc.parts)] = @ \o s]

\* the token t written right after the raw string acc.  A space, and the
\* first name of a relative path, lengthen the last name of acc; the names
\* of an absolute path follow those of acc.  (Path tokens are not the
\* root "/" by itself.)
Glue(acc, t) ==
    IF t.tok # "path" THEN GlueName(acc, t.tok)
    ELSE IF t.raw.abs
    THEN [abs   |-> IF acc = EmptyStr THEN TRUE ELSE acc.abs,
          parts |-> acc.parts \o t.raw.parts]
    ELSE IF t.raw.parts = <<>> THEN acc
    ELSE LET glued == GlueName(acc, Head(t.raw.parts))
         IN  [glued EXCEPT !.parts = @ \o Tail(t.raw.parts)]

\* the text of a chunk as one raw string
RECURSIVE ChunkText(_, _)
ChunkText(acc, chunk) ==
    IF chunk = <<>> THEN acc ELSE ChunkText(Glue(acc, Head(chunk)), Tail(chunk))

\* the stripped chunks that are not empty, each whole as one raw string
RECURSIVE DropChunks(_)
DropChunks(lines) ==
    IF lines = <<>> THEN <<>>
    ELSE LET chunk == ChunkText(EmptyStr, DropRStrip(DropLStrip(Head(lines))))
         IN  (IF chunk # EmptyStr THEN <<chunk>> ELSE <<>>)
             \o DropChunks(Tail(lines))

\* _parse_drop_value(value)
ParseDropValue(value) ==
    IF value = <<>> THEN <<>> ELSE DropChunks(DropLines(DropReplace(value)))

\* the loop over dropped_paths: every directory among them is remembered
RECURSIVE RememberDropped(_, _)
RememberDropped(recent, paths) ==
    IF paths = <<>> THEN recent
    ELSE RememberDropped(
            IF IsDir(Head(paths)) THEN RememberDir(recent, Head(paths)) ELSE recent,
            Tail(paths))

\* -DROP-
Drop(value, outcome) ==
    LET dropped       == ParseDropValue(value)
        dropped_paths == NormalizeEntries(dropped)
    IN  /\ IF dropped # <<>>
           THEN /\ selected' = Refresh(selected \o dropped_paths)
                /\ recent_dirs' = RememberDropped(recent_dirs, dropped_paths)
                /\ persisted' = SaveRecentDirs(persisted, recent_dirs', outcome)
           ELSE /\ selected' = Refresh(selected)
                /\ outcome = "written"
                /\ UNCHANGED << recent_dirs, persisted >>
        /\ Len(selected') <= MaxSel
        /\ Quiet("-DROP-", <<>>)

\* what the next -RUN- records about itself
RunRecord(genre_in, artist_in, join_artists) ==
    LET same == /\ prev_run.streak > 0
                /\ prev_run.genre = genre_in
                /\ prev_run.artist = artist_in
                /\ prev_run.join = join_artists
                /\ prev_run.sel = selected
    IN  [streak |-> IF same THEN 2 ELSE 1, genre |-> genre_in,
         artist |-> artist_in, join |-> join_artists, sel |-> selected]

\* mutant of RunBody: no early exit when nothing was found
RunBody_NoEarlyExit(found, done) ==
    /\ mp3s' = found.mp3s
    /\ errors' = found.errors
    /\ tags' = done.tags
    /\ successes' = done.successes
    /\ log_lines' = found.errors \o done.log
    /\ popup' = [kind |-> "Finished. Updated", count |-> done.successes]
    /\ selected' = Refresh(selected)

\* The body of the -RUN- branch once the inputs are read: found is what
\* _collect_mp3s returned, done the state after the loop over found.mp3s.
\* Without targets the branch ends at `continue`, before the refresh.
RunBody(found, done) ==
    /\ mp3s' = found.mp3s
    /\ errors' = found.errors
    /\ IF found.mp3s = <<>>
       THEN /\ popup' = [kind |-> "No MP3 files found in the selection.",
                         count |-> 0]
            /\ log_lines' = found.errors
            /\ UNCHANGED << tags, successes, selected >>
       ELSE /\ tags' = done.tags
            /\ successes' = done.successes
            /\ log_lines' = found.errors \o done.log
            /\ popup' = [kind |-> "Finished. Updated", count |-> done.successes]
            /\ selected' = Refresh(selected)

\* mutant of Run: the genre text is used as typed, without strip()
Run_GenreNotTrimmed(genre_in, artist_in, join_artists) ==
    LET genre       == genre_in
        artists_raw == Strip(artist_in)
        artists     == IF artists_raw # <<>>
                       THEN NormalizeArtistEntries(<<artists_raw>>) ELSE <<>>
    IN  /\ event' = "-RUN-"
        /\ prev_run' = RunRecord(genre_in, artist_in, join_artists)
        /\ \E found \in {CollectMp3s(selected)} :
           \E done \in {ProcessAll([tags |-> tags, successes |-> 0, log |-> <<>>],
                                   found.mp3s, genre, artists, join_artists)} :
              RunBody(found, done)
        /\ UNCHANGED << posix, aux_ok, recent_dirs, persisted, raw_artists,
                        normalized, last_dir >>

\* -RUN-: genre_in and artist_in are the texts of the two inputs,
\* join_artists the state of the checkbox
Run(genre_in, artist_in, join_artists) ==
    LET genre       == Strip(genre_in)
        artists_raw == Strip(artist_in)
        artists     == IF artists_raw # <<>>
                       THEN NormalizeArtistEntries(<<artists_raw>>) ELSE <<>>
    IN  /\ event' = "-RUN-"
        /\ prev_run' = RunRecord(genre_in, artist_in, join_artists)
        /\ \E found \in {CollectMp3s(selected)} :
           \E done \in {ProcessAll([tags |-> tags, successes |-> 0, log |-> <<>>],
                                   found.mp3s, genre, artists, join_artists)} :
              RunBody(found, done)
        /\ UNCHANGED << posix, aux_ok, recent_dirs, persisted, raw_artists,
                        normalized, last_dir >>

----------------------------------------------------------------------------
(* Inputs. *)

P_music   == AbsPath(<<"music">>)
P_a       == AbsPath(<<"music", "a.mp3">>)
P_A       == AbsPath(<<"music", "A.MP3">>)
P_b       == AbsPath(<<"music", "b.txt">>)
P_lib     == AbsPath(<<"lib">>)
P_c       == AbsPath(<<"lib", "c.MP3">>)
P_sub     == AbsPath(<<"lib", "sub">>)
P_d       == AbsPath(<<"lib", "sub", "d.mp3">>)
P_e       == AbsPath(<<"lib", "sub", "deep", "e.mp3">>)
P_libdots == AbsPath(<<"lib", "sub", "..">>)
P_rel_a   == RelPath(<<"a.mp3">>)
P_gone    == AbsPath(<<"gone.mp3">>)

\* the paths _collect_mp3s is tried on
DiscoverPaths == { P_music, P_a, P_A, P_b, P_lib, P_c, P_sub, P_d, P_e,
                   P_libdots, P_rel_a, P_gone }

SeqsUpTo(S, n) == UNION { [1..k -> S] : k \in 0..n }

\* genre and artist texts typed into the window
S_Pop  == <<"P", "o", "p">>
S_CD   == <<"C", ";", "D">>
GenreInputs  == { <<" ">>, S_Pop }
ArtistInputs == { <<>>, S_CD }

\* values common to every initial state
Blank ==
    /\ tags = InitTags
    /\ successes = -1
    /\ mp3s = <<>>
    /\ errors = <<>>
    /\ popup = NoPopup
    /\ log_lines = <<>>
    /\ raw_artists = <<>>
    /\ normalized = <<>>
    /\ last_dir = NoDir
    /\ prev_run = NoRun
    /\ event = "start"

----------------------------------------------------------------------------
(* SpecDiscover: _collect_mp3s applied to every sequence of entries. *)

InitDiscover ==
    /\ posix \in BOOLEAN
    /\ aux_ok = TRUE
    /\ selected \in SeqsUpTo(DiscoverPaths, MaxItems)
    /\ recent_dirs = <<>>
    /\ persisted = FileMissing
    /\ Blank

Collect ==
    /\ event = "start"
    /\ event' = "_collect_mp3s"
    /\ \E found \in {CollectMp3s(selected)} :
          /\ mp3s' = found.mp3s
          /\ errors' = found.errors
    /\ UNCHANGED << posix, aux_ok, selected, recent_dirs, persisted, tags,
                    successes, popup, log_lines, raw_artists, normalized,
                    last_dir, prev_run >>

NextDiscover == Collect

SpecDiscover == InitDiscover /\ [][NextDiscover]_vars

----------------------------------------------------------------------------
(* SpecNorm: _normalize_artist_entries applied to lists of raw strings.    *)

ArtistChars == {"A", "B", " ", ",", ";", "/"}

\* the example of the specification: "A ; B/ C,, D"
S_Example == <<"A", " ", ";", " ", "B", "/", " ", "C", ",", ",", " ", "D">>

RawLists ==
    { <<s>> : s \in SeqsUpTo(ArtistChars, MaxLen) }
    \cup (SeqsUpTo(ArtistChars, MaxPairLen) \X SeqsUpTo(ArtistChars, MaxPairLen))
    \cup { <<>>, <<S_Example>> }

InitNorm ==
    /\ posix = TRUE
    /\ aux_ok = TRUE
    /\ selected = <<>>
    /\ recent_dirs = <<>>
    /\ persisted = FileMissing
    /\ tags = InitTags
    /\ successes = -1
    /\ mp3s = <<>>
    /\ errors = <<>>
    /\ popup = NoPopup
    /\ log_lines = <<>>
    /\ raw_artists \in RawLists
    /\ normalized = <<>>
    /\ last_dir = NoDir
    /\ prev_run = NoRun
    /\ event = "start"

Normalize ==
    /\ event = "start"
    /\ event' = "_normalize_artist_entries"
    /\ normalized' = NormalizeArtistEntries(raw_artists)
    /\ UNCHANGED << posix, aux_ok, selected, recent_dirs, persisted, tags,
                    successes, mp3s, errors, popup, log_lines, raw_artists,
                    last_dir, prev_run >>

NextNorm == Normalize

SpecNorm == InitNorm /\ [][NextNorm]_vars

----------------------------------------------------------------------------
(* SpecRemember: _remember_dir applied, again and again, to MRU lists.     *)

\* the entries an MRU list may hold and the directories remembered
RecentPaths == { P_music, P_lib, P_sub, P_libdots, RelPath(<<>>) }

InitRemember ==
    /\ posix \in BOOLEAN
    /\ aux_ok = TRUE
    /\ selected = <<>>
    /\ recent_dirs \in SeqsUpTo(RecentPaths, MaxRecent)
    /\ persisted = FileMissing
    /\ Blank

Remember(new_dir) ==
    /\ recent_dirs' = RememberDir(recent_dirs, new_dir)
    /\ last_dir' = [streak |-> IF last_dir.streak > 0 /\ last_dir.dir = new_dir
                               THEN 2 ELSE 1,
                    dir |-> new_dir]
    /\ event' = "_remember_dir"
    /\ UNCHANGED << posix, aux_ok, selected, persisted, tags, successes, mp3s,
                    errors, popup, log_lines, raw_artists, normalized, prev_run >>

NextRemember == \E new_dir \in RecentPaths : Remember(new_dir)

SpecRemember == InitRemember /\ [][NextRemember]_vars

----------------------------------------------------------------------------
(* SpecLoad: _load_recent_dirs applied to what the storage file may hold.  *)

\* longest stored document the load is tried on
MaxStored == 2

StoredElements ==
    { JStr(P_music), JStr(P_lib), JStr(EmptyStr), JNum(0), JNum(1), JNull,
      JList(0), JList(1) }

\* the characters "/" and ".", as the strings `for p in "..."` yields
StoredChars == { JStr(AbsPath(<<>>)), JStr(RelPath(<<".">>)) }

StoredFiles ==
    { FileMissing, FileUnreadable, FileGarbage, FileEmpty, FileNumber, FileNull }
    \cup { FileList(v) : v \in SeqsUpTo(StoredElements, MaxStored) }
    \cup { FileObject(v) : v \in SeqsUpTo({JStr(P_music), JStr(P_lib)}, MaxStored) }
    \cup { FileString(v) : v \in SeqsUpTo(StoredChars, MaxStored) }

InitLoad ==
    /\ posix = TRUE
    /\ aux_ok = TRUE
    /\ selected = <<>>
    /\ persisted \in StoredFiles
    /\ recent_dirs = <<>>
    /\ Blank

Load ==
    /\ event = "start"
    /\ event' = "_load_recent_dirs"
    /\ recent_dirs' = LoadRecentDirs(persisted)
    /\ UNCHANGED << posix, aux_ok, selected, persisted, tags, successes, mp3s,
                    errors, popup, log_lines, raw_artists, normalized,
                    last_dir, prev_run >>

NextLoad == Load

SpecLoad == InitLoad /\ [][NextLoad]_vars

----------------------------------------------------------------------------
(* SpecBatch: the -RUN- handler applied, again and again, to a Selection.  *)

\* the entries of the Selections the batch run is tried on
BatchPaths == { P_music, P_a, P_rel_a, P_b, P_c, P_sub, P_gone }

InitBatch ==
    /\ posix \in BOOLEAN
    /\ aux_ok \in BOOLEAN
    /\ selected \in { s \in SeqsUpTo(BatchPaths, MaxSel) : Refresh(s) = s }
    /\ recent_dirs = <<>>
    /\ persisted = FileMissing
    /\ Blank

NextBatch ==
    \E genre_in \in GenreInputs, artist_in \in ArtistInputs, join_artists \in BOOLEAN :
        Run(genre_in, artist_in, join_artists)

SpecBatch == InitBatch /\ [][NextBatch]_vars

----------------------------------------------------------------------------
(* Spec: a session of main(), from the load of the MRU storage on.         *)

\* what RECENT_PATH may hold when the program starts
PersistedInputs ==
    { FileMissing,
      FileList(<<JStr(P_music), JStr(P_lib), JStr(EmptyStr), JStr(P_music)>>) }

\* what the file dialog may return
FileDialogs == { <<>>, <<EmptyStr, RelPath(<<"~", "a.mp3">>)>> }

\* what the folder dialog may return
FolderDialogs == { EmptyStr, P_music, P_libdots }

\* what may be dropped on the -DROP- input
DropValues ==
    { <<>>,
      <<CharTok(" "), CharTok(";")>>,
      <<PathTok(P_a), CharTok(";"), CharTok(" "), PathTok(P_music)>>,
      <<PathTok(P_libdots), CharTok("\n"), PathTok(P_music), CharTok("\n")>> }

\* the texts typed before a -RUN- of the session
SessionGenres  == { S_Pop }
SessionArtists == { <<>> }
SessionJoins   == { TRUE }

Init ==
    /\ posix \in BOOLEAN
    /\ aux_ok = FALSE
    /\ persisted \in PersistedInputs
    /\ recent_dirs = LoadRecentDirs(persisted)
    /\ selected = <<>>
    /\ Blank

Next ==
    \/ \E entries \in FileDialogs : ChooseFiles(entries)
    \/ \E folder \in FolderDialogs, outcome \in WriteOutcomes :
          ChooseFolder(folder, outcome)
    \/ \E i \in DOMAIN recent_dirs, outcome \in WriteOutcomes :
          UseRecent(StrOf(recent_dirs[i]), outcome)
    \/ UseRecent(EmptyStr, "written")
    \/ Clear
    \/ \E value \in DropValues, outcome \in WriteOutcomes : Drop(value, outcome)
    \/ \E genre_in \in SessionGenres, artist_in \in SessionArtists,
          join_artists \in SessionJoins :
          Run(genre_in, artist_in, join_artists)

Spec == Init /\ [][Next]_vars

----------------------------------------------------------------------------
(* SpecRecent: the events of a session that use a directory, and -CLEAR-.  *)

\* what may be dropped there: also a text with a space inside a chunk
RecentDropValues ==
    DropValues \cup { <<PathTok(P_a), CharTok(" "), PathTok(P_music)>> }

NextRecent ==
    \/ \E folder \in FolderDialogs, outcome \in WriteOutcomes :
          ChooseFolder(folder, outcome)
    \/ \E i \in DOMAIN recent_dirs, outcome \in WriteOutcomes :
          UseRecent(StrOf(recent_dirs[i]), outcome)
    \/ UseRecent(EmptyStr, "written")
    \/ Clear
    \/ \E value \in RecentDropValues, outcome \in WriteOutcomes : Drop(value, outcome)

SpecRecent == Init /\ [][NextRecent]_vars

----------------------------------------------------------------------------
(* Properties of discovery, checked under SpecDiscover.                    *)

Collected == event = "_collect_mp3s"

\* an entry the user supplied that is itself an eligible file
DirectEligible(item) == IsFile(item) /\ Lower(PathSuffix(item)) = MP3_SUFFIX

\* node f lies somewhere beneath the directory node d
Beneath(d, f) == Len(d) < Len(f) /\ SubSeq(f, 1, Len(d)) = d

\* the indexes of mp3s that denote the file f
OccurrencesOf(f) == { k \in DOMAIN mp3s : NodeOf(mp3s[k]) = f }

\* the files of the tree with a suffix that is .mp3 in any letter case
AnyCaseMp3s == { f \in Files : Lower(PathSuffix(AbsPath(f))) = MP3_SUFFIX }

\* the files met while walking the first n entries of the selection
SeenWithin(n) ==
    { f \in AnyCaseMp3s :
        \E i \in 1..n :
           \/ DirectEligible(selected[i]) /\ NodeOf(selected[i]) = f
           \/ IsDir(selected[i]) /\ Beneath(NodeOf(selected[i]), f) }

\* C1 (as the specification states it): a file that is supplied directly
\* and also lies beneath a selected directory is listed exactly once, where
\* it was first met: the files listed before it are those of earlier entries.
C1_OncePerResolvedFile ==
    Collected =>
      \A i, j \in DOMAIN selected :
         LET f == NodeOf(selected[i])
         IN  ( /\ DirectEligible(selected[i])
               /\ IsDir(selected[j])
               /\ Beneath(NodeOf(selected[j]), f) )
             => /\ Cardinality(OccurrencesOf(f)) = 1
                /\ \A k \in OccurrencesOf(f) :
                      \A m \in 1..(k - 1) :
                         NodeOf(mp3s[m]) \in SeenWithin(IF i < j THEN i ELSE j)

\* entry i of the selection is skipped with a warning
Skipped(i) ==
    \/ ~Exists(selected[i])
    \/ IsFile(selected[i]) /\ Lower(PathSuffix(selected[i])) # MP3_SUFFIX

\* the k-th skipped entry of the selection
SkippedAt(k) ==
    CHOOSE i \in DOMAIN selected :
       Skipped(i) /\ Cardinality({ j \in 1..i : Skipped(j) }) = k

\* C2: every target exists and carries the .mp3 suffix in some letter case;
\* the warnings are, in the order of the selection, one "Missing path
\* skipped" per absent entry and one "Not an MP3 file skipped" per existing
\* file of another type, and nothing else.
C2_TargetsAndWarnings ==
    Collected =>
      /\ \A k \in DOMAIN mp3s :
            Exists(mp3s[k]) /\ Lower(PathSuffix(mp3s[k])) = MP3_SUFFIX
      /\ Len(errors) = Cardinality({ i \in DOMAIN selected : Skipped(i) })
      /\ \A k \in DOMAIN errors :
            /\ errors[k].path = selected[SkippedAt(k)]
            /\ errors[k].kind = IF Exists(selected[SkippedAt(k)])
                                THEN "Not an MP3 file skipped"
                                ELSE "Missing path skipped"

\* C2 witness: an absent entry, a text file and an MP3 file, in this order
C2_Witness ==
    /\ Collected
    /\ selected = <<P_gone, P_b, P_a>>
    /\ mp3s = <<P_a>>
    /\ Len(errors) = 2
    /\ errors[1].kind = "Missing path skipped"
    /\ errors[2].kind = "Not an MP3 file skipped"

\* C4 (as the specification states it): the suffix is matched without regard
\* to letter case for a file supplied directly and for a file found by
\* expanding a directory alike.
C4_SuffixAnyCaseEverywhere ==
    Collected =>
      \A i \in DOMAIN selected :
         /\ DirectEligible(selected[i])
               => OccurrencesOf(NodeOf(selected[i])) # {}
         /\ IsDir(selected[i])
               => \A f \in AnyCaseMp3s :
                     Beneath(NodeOf(selected[i]), f) => OccurrencesOf(f) # {}

----------------------------------------------------------------------------
(* Properties of the artist normalizer, checked under SpecNorm.            *)

Normalized == event = "_normalize_artist_entries"

IsSeparator(c) == c \in {",", ";", "/"}

\* a set of numbers as an ascending sequence
RECURSIVE Ascending(_)
Ascending(S) ==
    IF S = {} THEN <<>>
    ELSE LET m == CHOOSE x \in S : \A y \in S : x <= y
         IN  <<m>> \o Ascending(S \ {m})

\* t from its first to its last character that is not white space
Trimmed(t) ==
    LET ink == { i \in DOMAIN t : ~IsSpace(t[i]) }
    IN  IF ink = {} THEN <<>>
        ELSE SubSeq(t, CHOOSE i \in ink : \A j \in ink : i <= j,
                       CHOOSE i \in ink : \A j \in ink : j <= i)

\* the names of one string: the stretches between separators, trimmed, the
\* empty ones left out
NamesOf(raw) ==
    LET cuts   == Ascending({0, Len(raw) + 1}
                            \cup { i \in DOMAIN raw : IsSeparator(raw[i]) })
        pieces == [k \in 1..(Len(cuts) - 1) |->
                      Trimmed(SubSeq(raw, cuts[k] + 1, cuts[k + 1] - 1))]
    IN  SelectSeq(pieces, LAMBDA t : t # <<>>)

\* the names of all the strings, in the order of the strings
RECURSIVE NamesOfAll(_)
NamesOfAll(raws) ==
    IF raws = <<>> THEN <<>>
    ELSE NamesOf(Head(raws)) \o NamesOfAll(Tail(raws))

\* C5: the normalizer treats comma, semicolon and slash alike as separators,
\* trims each piece and drops the empty ones, keeps order and repeated
\* names; "A ; B/ C,, D" gives A, B, C, D.
C5_SeparatorsAlike ==
    Normalized =>
      /\ normalized = NamesOfAll(raw_artists)
      /\ raw_artists = <<S_Example>>
            => normalized = << <<"A">>, <<"B">>, <<"C">>, <<"D">> >>

\* C5 witness: the example of the specification has been normalized
C5_Witness ==
    /\ Normalized
    /\ raw_artists = <<S_Example>>
    /\ normalized = << <<"A">>, <<"B">>, <<"C">>, <<"D">> >>

----------------------------------------------------------------------------
(* Properties of the list of recent directories.                           *)

\* the entries of the list that are the directory d
CopiesOf(d) ==
    { i \in DOMAIN recent_dirs : PathKey(recent_dirs[i]) = PathKey(Resolve(d)) }

\* C7 (SpecRemember): after a directory is remembered it heads the list and
\* occurs there once, the list has at most MRU_MAX entries, and remembering
\* the same directory again leaves the list as it is.
C7_RememberTwice ==
    /\ [][last_dir'.streak = 2 => recent_dirs' = recent_dirs]_vars
    /\ [](event = "_remember_dir" =>
            /\ recent_dirs # <<>>
            /\ recent_dirs[1] = Resolve(last_dir.dir)
            /\ CopiesOf(last_dir.dir) = {1}
            /\ Len(recent_dirs) <= MRU_MAX)

\* C7 witness: the same directory was remembered twice in a row while the
\* list held another directory as well
C7_Witness ==
    /\ event = "_remember_dir"
    /\ last_dir.streak = 2
    /\ Len(recent_dirs) = 2

\* C8 (as the specification states it): the list of recent directories never
\* holds more than two entries and never holds a directory twice.
C8_AtMostTwoDistinct ==
    /\ Len(recent_dirs) <= MRU_MAX
    /\ \A i, j \in DOMAIN recent_dirs :
          PathKey(recent_dirs[i]) = PathKey(recent_dirs[j]) => i = j

----------------------------------------------------------------------------
(* Properties of the batch run, checked under SpecBatch.                   *)

Ran == event = "-RUN-"

N_a == <<"music", "a.mp3">>

\* the run of the scenario: the directory /music, genre "Pop", no artist
\* text, join mode on
ScenarioRun ==
    /\ Ran
    /\ prev_run.sel = <<P_music>>
    /\ prev_run.genre = S_Pop
    /\ prev_run.artist = <<>>
    /\ prev_run.join = TRUE

\* C3 (as the specification states it): in the scenario the only target is
\* a.mp3, the warnings include a wrong-type note for b.txt, the genre of
\* a.mp3 is "Pop" afterwards and the success count is 1.
C3_ScenarioWithNote ==
    ScenarioRun =>
      /\ mp3s = <<P_a>>
      /\ \E k \in DOMAIN errors :
            errors[k] = Warning("Not an MP3 file skipped", P_b)
      /\ tags[N_a].genre = <<S_Pop>>
      /\ successes = 1

\* C3 (amended): in the scenario the only target is a.mp3 and there is no
\* warning at all, b.txt being passed over silently by the directory
\* expansion; the genre of a.mp3 is "Pop" afterwards and the success count
\* is 1.
C3_ScenarioSilent ==
    ScenarioRun =>
      /\ mp3s = <<P_a>>
      /\ errors = <<>>
      /\ tags[N_a].genre = <<S_Pop>>
      /\ successes = 1
      /\ popup = [kind |-> "Finished. Updated", count |-> 1]

\* C3 witness: the scenario has run and a.mp3 carries the genre
C3_Witness ==
    /\ ScenarioRun
    /\ tags[N_a].genre = <<S_Pop>>
    /\ log_lines = <<LogLine("Updated", P_a, TRUE, FALSE)>>

\* C6: a run with the inputs and the Selection of the run just before it
\* leaves the tags of every file as that run left them.
C6_SecondRunChangesNothing ==
    [][prev_run'.streak = 2 => tags' = tags]_vars

\* C6 witness: two runs in a row without artist text, after which a.mp3
\* carries the frame and the display artist derived from its own artist field
C6_Witness ==
    /\ Ran
    /\ prev_run.streak = 2
    /\ prev_run.artist = <<>>
    /\ prev_run.join = TRUE
    /\ tags[N_a].artist = << <<"A", " ", "/", " ", "B">> >>
    /\ tags[N_a].aux = << << <<"A">>, <<"B">> >> >>

\* C9 (as the specification states it): a run that finds no target ends
\* with a success count of 0, logs the warnings and touches no tags.
C9_NoTargetsCountZero ==
    (Ran /\ mp3s = <<>>) =>
      /\ successes = 0
      /\ log_lines = errors
      /\ tags = InitTags

\* C9 (amended): a run that finds no target reports no count: it shows the
\* error "No MP3 files found in the selection." and leaves the counter
\* alone; it logs the warnings and touches no tags.
C9_NoTargetsNoCount ==
    [][(event' = "-RUN-" /\ mp3s' = <<>>) =>
          /\ popup' = [kind |-> "No MP3 files found in the selection.", count |-> 0]
          /\ successes' = successes
          /\ log_lines' = errors'
          /\ tags' = tags]_vars

\* C9 witness: a run over a text file and an absent path
C9_Witness ==
    /\ Ran
    /\ mp3s = <<>>
    /\ Len(log_lines) = 2
    /\ popup.kind = "No MP3 files found in the selection."

\* the file behind a target opens and saves
Healthy(mp3) == FileKind[NodeOf(mp3)] = "id3"

\* the part of the log written by the loop over the targets
Outcomes == SubSeq(log_lines, Len(errors) + 1, Len(log_lines))

\* C10: a run with targets logs, after the warnings, one outcome per target
\* in the order of discovery, "Failed" for the files that cannot be read or
\* saved and "Updated" for the others whatever came before them, and the
\* count it reports is the number of the latter.
C10_EveryTargetAttempted ==
    (Ran /\ mp3s # <<>>) =>
      /\ SubSeq(log_lines, 1, Len(errors)) = errors
      /\ Len(Outcomes) = Len(mp3s)
      /\ \A k \in DOMAIN mp3s :
            /\ Outcomes[k].path = mp3s[k]
            /\ Outcomes[k].kind = IF Healthy(mp3s[k]) THEN "Updated" ELSE "Failed"
      /\ successes = Cardinality({ k \in DOMAIN mp3s : Healthy(mp3s[k]) })
      /\ popup = [kind |-> "Finished. Updated", count |-> successes]

\* C10 witness: an unsupported file and one that cannot be saved, then a
\* file that is updated
C10_Witness ==
    /\ Ran
    /\ Len(mp3s) = 3
    /\ Outcomes[1].kind = "Failed"
    /\ Outcomes[2].kind = "Failed"
    /\ Outcomes[3].kind = "Updated"
    /\ successes = 1

----------------------------------------------------------------------------
(* Properties of the session, checked under Spec.                          *)

\* parts with every ".." and the name before it removed
RECURSIVE Collapse(_, _)
Collapse(done, parts) ==
    IF parts = <<>> THEN done
    ELSE IF Head(parts) = ".."
    THEN Collapse(IF done = <<>> THEN <<>> ELSE Front(done), Tail(parts))
    ELSE Collapse(Append(done, Head(parts)), Tail(parts))

\* the normalized absolute path of p, as the names from the root
NormalizedAbsolute(p) == Collapse(<<>>, IF p.abs THEN p.parts ELSE Cwd \o p.parts)

\* C11 (as the specification states it): after every event the Selection
\* holds no two entries with the same normalized absolute path.
C11_NoPathTwice ==
    \A i, j \in DOMAIN selected :
       NormalizedAbsolute(selected[i]) = NormalizedAbsolute(selected[j]) => i = j

----------------------------------------------------------------------------
(* Properties of the load of the MRU storage, checked under SpecLoad.      *)

Loaded == event = "_load_recent_dirs"

\* the file holds a flat list of path strings
FlatListOfStrings(file) ==
    file.t = "list" /\ \A i \in DOMAIN file.v : file.v[i].j = "str"

\* C12 (as the specification states it): the load gives the empty list for
\* a file that is missing, unreadable or holds anything but a flat list of
\* path strings.
C12_EmptyUnlessFlatList ==
    Loaded => (~FlatListOfStrings(persisted) => recent_dirs = <<>>)

----------------------------------------------------------------------------
(* Properties of the edits a run makes to one file, checked under          *)
(* SpecBatch.                                                              *)

\* the files a run with these targets opens and saves
SavedAmong(targets) ==
    { NodeOf(targets[k]) : k \in { i \in DOMAIN targets : Healthy(targets[i]) } }

\* the files the last run opened and saved
SavedNodes == SavedAmong(mp3s)

\* the Artist List a run makes of the artist text
TypedIn(artist_in) == NormalizeArtistEntries(<<Strip(artist_in)>>)

\* the Artist List typed for the last run
TypedArtists == TypedIn(prev_run.artist)

\* the display artist field for a list of names, by the join mode
DisplayOf(names, join) == IF join THEN <<JoinWith(names, ARTIST_SEP)>> ELSE names

\* C13 (as the specification states it): after a run with artist text every
\* saved file shows the names joined by " / " or as discrete entries, by the
\* join mode, and its ARTISTS-LIST frame holds the full list.
C13_DisplayAndFrame ==
    (Ran /\ TypedArtists # <<>>) =>
      \A n \in SavedNodes :
         /\ tags[n].artist = DisplayOf(TypedArtists, prev_run.join)
         /\ tags[n].aux = <<TypedArtists>>

N_c == <<"lib", "c.MP3">>

\* the artist source of file n in a run: the typed list, or else the
\* file's artist field as the run found it, normalized
SourceOf(typed, n) ==
    IF typed # <<>> THEN typed ELSE NormalizeArtistEntries(tags[n].artist)

\* C15: a run gives every file it saves the display artist of its artist
\* source, which is the typed list when there is one and otherwise the
\* file's own artist field normalized; a file whose source is empty keeps
\* its artist field and its frame.
C15_ArtistSource ==
    [][event' = "-RUN-" =>
          \A n \in SavedAmong(mp3s') :
             IF SourceOf(TypedIn(prev_run'.artist), n) = <<>>
             THEN /\ tags'[n].artist = tags[n].artist
                  /\ tags'[n].aux = tags[n].aux
             ELSE tags'[n].artist =
                     DisplayOf(SourceOf(TypedIn(prev_run'.artist), n), prev_run'.join)]_vars

\* C15 witness: a run without artist text and with join mode off has split
\* the entry "A/B" of a.mp3 into A and B and left c.MP3, which names no
\* artist, without artist and without frame
C15_Witness ==
    /\ Ran
    /\ prev_run.artist = <<>>
    /\ ~prev_run.join
    /\ {N_a, N_c} \subseteq SavedNodes
    /\ tags[N_a].artist = << <<"A">>, <<"B">> >>
    /\ tags[N_c].artist = <<>>
    /\ tags[N_c].aux = <<>>

\* C16: when the frame cannot be stored, a run with artist text still saves
\* the genre and the display artist of every file that opens and saves,
\* logs it as updated and counts it.
C16_FrameFailureNotFatal ==
    (Ran /\ mp3s # <<>> /\ ~aux_ok /\ TypedArtists # <<>>) =>
      /\ \A k \in DOMAIN mp3s :
            Healthy(mp3s[k]) =>
               /\ Outcomes[k].kind = "Updated"
               /\ tags[NodeOf(mp3s[k])].artist =
                     DisplayOf(TypedArtists, prev_run.join)
               /\ Strip(prev_run.genre) # <<>> =>
                     tags[NodeOf(mp3s[k])].genre = <<Strip(prev_run.genre)>>
               /\ tags[NodeOf(mp3s[k])].aux = InitTags[NodeOf(mp3s[k])].aux
      /\ successes = Cardinality({ k \in DOMAIN mp3s : Healthy(mp3s[k]) })

\* C16 witness: the frame could not be stored, and a.mp3 has the genre and
\* the joined artists of the run and is counted
C16_Witness ==
    /\ Ran
    /\ ~aux_ok
    /\ prev_run.genre = S_Pop
    /\ prev_run.artist = S_CD
    /\ prev_run.join
    /\ mp3s = <<P_a>>
    /\ tags[N_a] = TagRecord(<<S_Pop>>, << <<"C", " ", "/", " ", "D">> >>, <<>>)
    /\ successes = 1
    /\ log_lines = <<LogLine("Updated", P_a, TRUE, TRUE)>>

\* C17: a run sets the genre of the files it saves to the typed genre,
\* trimmed, when that is not empty; every other genre field stays as it was.
C17_GenreOnlyWhenTyped ==
    [][event' = "-RUN-" =>
          \A n \in Files :
             tags'[n].genre =
                IF Strip(prev_run'.genre) # <<>> /\ n \in SavedAmong(mp3s')
                THEN <<Strip(prev_run'.genre)>>
                ELSE tags[n].genre]_vars

\* C17 witness: a run with genre "Pop" has replaced the genre "R" of c.MP3
C17_Witness ==
    /\ Ran
    /\ prev_run.genre = S_Pop
    /\ N_c \in SavedNodes
    /\ InitTags[N_c].genre = << <<"R">> >>
    /\ tags[N_c].genre = <<S_Pop>>

----------------------------------------------------------------------------
(* Properties of the MRU list during a session: C14 is checked under       *)
(* SpecRecent, C18 under Spec.                                             *)

\* the step leaves the storage file holding the list that is in memory
StorageInSync ==
    /\ persisted'.t = "list"
    /\ Len(persisted'.v) = Len(recent_dirs')
    /\ LoadRecentDirs(persisted') = recent_dirs'

\* the step leaves dir, resolved, at the front of the list in memory
AtFront(dir) == recent_dirs' # <<>> /\ recent_dirs'[1] = Resolve(dir)

\* what a step that used the directory dir and saved with this outcome
\* must leave behind
Remembered(dir, outcome) ==
    /\ AtFront(dir)
    /\ outcome = "written" => StorageInSync

\* the directories among the dropped paths, in the order they were dropped
DroppedDirs(value) == SelectSeq(NormalizeEntries(ParseDropValue(value)), IsDir)

\* C14: a folder pick, a use of a recent directory and a drop leave the
\* directory they used (for a drop, the last directory dropped) resolved at
\* the front of the list in memory, whether the write succeeds or not, and
\* when the write succeeds the storage holds the list that is in memory.
C14_SavedAfterEveryChange ==
    [][/\ event' = "-CHOOSE-FOLDER-" =>
             \A outcome \in WriteOutcomes, folder \in FolderDialogs \ {EmptyStr} :
                ChooseFolder(folder, outcome) => Remembered(PathOf(folder), outcome)
       /\ event' = "-USE-RECENT-" =>
             \A outcome \in WriteOutcomes, i \in DOMAIN recent_dirs :
                UseRecent(StrOf(recent_dirs[i]), outcome)
                   => Remembered(PathOf(StrOf(recent_dirs[i])), outcome)
       /\ event' = "-DROP-" =>
             \A outcome \in WriteOutcomes, value \in RecentDropValues :
                (ParseDropValue(value) # <<>> /\ Drop(value, outcome))
                   => /\ outcome = "written" => StorageInSync
                      /\ IF DroppedDirs(value) = <<>>
                         THEN recent_dirs' = recent_dirs
                         ELSE AtFront(DroppedDirs(value)[Len(DroppedDirs(value))])
      ]_vars

\* C14 witness: "/lib/sub/.." and "/music" were dropped together and the
\* write succeeded
C14_Witness ==
    /\ event = "-DROP-"
    /\ selected = <<P_libdots, P_music>>
    /\ recent_dirs = <<P_music, P_lib>>
    /\ persisted = FileList(<<JStr(P_music), JStr(P_lib)>>)

\* C18: a run leaves the Selection, the list of recent directories and the
\* storage file as they were; a clear empties the Selection and leaves the
\* list, the storage file and the tags of every file as they were.
C18_RunAndClearFrame ==
    [][/\ event' = "-RUN-" =>
             /\ selected' = selected
             /\ recent_dirs' = recent_dirs
             /\ persisted' = persisted
       /\ event' = "-CLEAR-" =>
             /\ selected' = <<>>
             /\ recent_dirs' = recent_dirs
             /\ persisted' = persisted
             /\ tags' = tags]_vars

\* C18 witness: a clear after a folder was picked and a run has tagged a.mp3
C18_Witness ==
    /\ event = "-CLEAR-"
    /\ selected = <<>>
    /\ recent_dirs # <<>>
    /\ persisted # FileMissing
    /\ tags[N_a].genre = <<S_Pop>>

====
